---- MODULE Spec2Model ----
(***************************************************************************)
(* Model of the two image-preparation batch jobs of wow-arena:             *)
(*   scripts/crop-weapon-refs.py          (the weapon cropper)             *)
(*   scripts/remove-weapons-from-refs.py  (the weapon remover)             *)
(*                                                                         *)
(* The specifications of the module:                                       *)
(*   Spec        one run of either main(): the loop over the hardcoded     *)
(*               table, the per-item skip / save / raise outcomes, the     *)
(*               tally.  Images are represented by their derivation.       *)
(*   SpecCanvas  the geometry of crop_weapon_ref on a range of crop boxes. *)
(*   SpecRemove  remove_weapons / paint_over_region, pixel by pixel, on    *)
(*               small rasters; SpecFold is the same on rectangle lists.   *)
(*   SpecSample  sample_background_color on small rasters.                 *)
(***************************************************************************)
EXTENDS Integers, Sequences, FiniteSets, TLC

VARIABLES
    \* ---- a batch run (Spec)
    job,          \* "crop" or "remove": which script's main() runs
    present,      \* identifiers whose source PNG exists in ART_DIR
    pc,           \* "run", "done" (main returned) or "crashed" (uncaught exception)
    idx,          \* position of the for loop in the table, 1-based
    total,        \* main's local total
    success,      \* main's local success
    written,      \* the files saved so far, in order: [name, content]
    log,          \* the lines printed so far (SKIP / OK / DONE)
    failedAt,     \* 0, or the table position whose save() raised
    \* ---- crop geometry (SpecCanvas)
    box,          \* the crop box (x, y, x2, y2)
    canvas_size,  \* side of the square canvas
    paste_x,      \* left offset of the pasted crop
    paste_y,      \* top offset of the pasted crop
    cpc,          \* "input" or "done"
    \* ---- one remove_weapons call (SpecRemove)
    rsrc,         \* the source raster as stored on disk
    regions,      \* the character's rectangle list
    feather,      \* the feather argument of paint_over_region
    rpc,          \* position inside remove_weapons / paint_over_region
    ri,           \* index of the rectangle being painted
    img,          \* the working image of remove_weapons
    prev,         \* the img argument of the paint_over_region call in progress
    rect,         \* the clamped rectangle <<x1, y1, x2, y2>>
    mask,         \* paint_over_region's mask (drawn, then blurred in place)
    rout,         \* the sequence of rasters saved to the output path
    \* ---- one sample_background_color call (SpecSample)
    simg,         \* the image sampled
    sregion,      \* the region argument
    pixels,       \* the list of samples collected
    sresult,      \* the returned colour
    spc           \* "input" or "done"

batchVars  == <<job, present, pc, idx, total, success, written, log, failedAt>>
canvasVars == <<box, canvas_size, paste_x, paste_y, cpc>>
removeVars == <<rsrc, regions, feather, rpc, ri, img, prev, rect, mask, rout>>
sampleVars == <<simg, sregion, pixels, sresult, spc>>
vars == <<batchVars, canvasVars, removeVars, sampleVars>>

----------------------------------------------------------------------------
(* Generic helpers *)

Max(a, b) == IF a >= b THEN a ELSE b
Min(a, b) == IF a <= b THEN a ELSE b

RECURSIVE Pow2(_)
Pow2(n) == IF n <= 0 THEN 1 ELSE 2 * Pow2(n - 1)

\* floor(log2(n)) for n >= 1
RECURSIVE Log2(_)
Log2(n) == IF n <= 1 THEN 0 ELSE 1 + Log2(n \div 2)

----------------------------------------------------------------------------
(* crop-weapon-refs.py *)

\* CROP_REGIONS in iteration order (dicts iterate in insertion order), the
\* nested class -> weapon -> box mapping flattened to (class, weapon, box).
CROP_REGIONS ==
    << [class |-> "revenant",  weapon |-> "mace",       box |-> <<50, 280, 500, 950>>],
       [class |-> "revenant",  weapon |-> "shield",     box |-> <<300, 650, 950, 1350>>],
       [class |-> "tyrant",    weapon |-> "greatsword", box |-> <<200, 850, 720, 1650>>],
       [class |-> "wraith",    weapon |-> "daggers",    box |-> <<0, 850, 1024, 1400>>],
       [class |-> "infernal",  weapon |-> "staff",      box |-> <<580, 150, 1024, 1150>>],
       [class |-> "harbinger", weapon |-> "staff",      box |-> <<150, 680, 850, 1250>>] >>

OUTPUT_SIZE == 1024

\* Image.crop(box).size: the size of the box, whatever the image holds there.
CropSize(b) == <<b[3] - b[1], b[4] - b[2]>>

\* int(dim * 1.15).  dim * 1.15 is an IEEE-754 double product: 1.15 is the
\* double 0x1.2666666666666p+0 = 0x12666666666666 / 2^52, the exact product
\* dim * 0x12666666666666 is rounded to 53 significant bits (ties to even),
\* and int() truncates.  The 53-bit significand is held in 16-bit limbs
\* (0x12, 0x6666, 0x6666, 0x6666) so that every intermediate stays below 2^31;
\* valid for 1 <= dim < 50000.
CanvasSizeCeil(dim) == (115 * dim + 99) \div 100
CanvasSize(dim) ==
    LET t0 == dim * 26214
        p0 == t0 % 65536
        t1 == dim * 26214 + (t0 \div 65536)
        p1 == t1 % 65536
        t2 == dim * 26214 + (t1 \div 65536)
        p2 == t2 % 65536
        t3 == dim * 18 + (t2 \div 65536)
        ip == t3 \div 16                   \* integer part of the exact product
        e  == Log2(ip)                      \* bits dropped by the rounding
        rem  == p0 % Pow2(e)
        half == Pow2(e - 1)
        kept == p0 \div Pow2(e)
        up   == e > 0 /\ (rem > half \/ (rem = half /\ kept % 2 = 1))
        ones == /\ kept = Pow2(16 - e) - 1
                /\ p1 = 65535
                /\ p2 = 65535
                /\ t3 % 16 = 15
    IN  IF up /\ ones THEN ip + 1 ELSE ip

\* (canvas_size - w) // 2
PasteOffsetRoundUp(canvas, extent) == (canvas - extent + 1) \div 2
PasteOffset(canvas, extent) == (canvas - extent) \div 2

\* The geometry crop_weapon_ref computes for a box; the pixels of the result
\* are the crop pasted at (paste_x, paste_y) on a canvas_size square of
\* (30, 30, 35), resized to OUTPUT_SIZE x OUTPUT_SIZE.
CropGeometry(b) ==
    LET w   == CropSize(b)[1]
        h   == CropSize(b)[2]
        dim == Max(w, h)
        cs  == CanvasSize(dim)
    IN  [w |-> w, h |-> h, canvas_size |-> cs,
         paste_x |-> PasteOffset(cs, w), paste_y |-> PasteOffset(cs, h),
         size |-> <<OUTPUT_SIZE, OUTPUT_SIZE>>]

----------------------------------------------------------------------------
(* remove-weapons-from-refs.py: the table *)

\* WEAPON_REGIONS in iteration order.
WEAPON_REGIONS ==
    << [class |-> "tyrant",    regions |-> << <<200, 600, 550, 1500>>,
                                              <<700, 1400, 900, 1750>>,
                                              <<350, 1300, 600, 1550>> >>],
       [class |-> "wraith",    regions |-> << <<50, 800, 250, 1150>>,
                                              <<750, 800, 1000, 1150>> >>],
       [class |-> "infernal",  regions |-> << <<0, 0, 300, 1600>>,
                                              <<720, 0, 1024, 1600>>,
                                              <<400, 1500, 700, 1792>> >>],
       [class |-> "harbinger", regions |-> << <<500, 750, 850, 1050>>,
                                              <<200, 1200, 550, 1550>> >>],
       [class |-> "revenant",  regions |-> << >>] >>

Classes == {"tyrant", "wraith", "infernal", "harbinger", "revenant"}

\* feather=35 at the call in remove_weapons
REMOVE_FEATHER == 35

\* radius=60 of the blurred fill in paint_over_region
FILL_BLUR_RADIUS == 60

----------------------------------------------------------------------------
(* The batch runs: main() of either script *)

Table == IF job = "crop" THEN CROP_REGIONS ELSE WEAPON_REGIONS
Item  == Table[idx]

\* "if crop_weapon_ref(...): success += 1" / "if remove_weapons(...): success += 1"
CountAlways(n, ok) == n + 1
Count(n, ok) == IF ok THEN n + 1 ELSE n

CropName(it)   == <<"wpn", it.class, it.weapon, "ref.png">>
RemoveName(it) == <<it.class, "model_ref_noweapons.png">>

\* The left fold of paint_over_region over a rectangle list, as a derivation:
\* the list of (rectangle, feather) applications made to the opened source.
RECURSIVE Painted(_, _)
Painted(done, rs) ==
    IF rs = << >> THEN done
    ELSE Painted(Append(done, <<Head(rs), REMOVE_FEATHER>>), Tail(rs))

InitBatchVars ==
    /\ job \in {"crop", "remove"}
    /\ present \in SUBSET Classes
    /\ pc = "run"
    /\ idx = 1
    /\ total = 0
    /\ success = 0
    /\ written = << >>
    /\ log = << >>
    /\ failedAt = 0

IdleBatch ==
    /\ job = "none"
    /\ present = {}
    /\ pc = "idle"
    /\ idx = 0
    /\ total = 0
    /\ success = 0
    /\ written = << >>
    /\ log = << >>
    /\ failedAt = 0

InLoop == pc = "run" /\ idx <= Len(Table)

\* crop_weapon_ref returns False: the splash is missing.
CropSkip ==
    /\ InLoop /\ job = "crop"
    /\ Item.class \notin present
    /\ total' = total + 1
    /\ success' = Count(success, FALSE)
    /\ log' = Append(log, <<"SKIP", idx>>)
    /\ idx' = idx + 1
    /\ UNCHANGED <<job, present, pc, written, failedAt>>
    /\ UNCHANGED <<canvasVars, removeVars, sampleVars>>

\* crop_weapon_ref runs to its return True.
CropOK ==
    /\ InLoop /\ job = "crop"
    /\ Item.class \in present
    /\ total' = total + 1
    /\ written' = Append(written, [name |-> CropName(Item),
                                   content |-> CropGeometry(Item.box)])
    /\ log' = Append(log, <<"OK", idx>>)
    /\ success' = Count(success, TRUE)
    /\ idx' = idx + 1
    /\ UNCHANGED <<job, present, pc, failedAt>>
    /\ UNCHANGED <<canvasVars, removeVars, sampleVars>>

\* canvas.save raises (permissions, disk full): nothing catches it.
SaveRaisesCaught ==
    /\ total' = total + 1
    /\ failedAt' = idx
    /\ idx' = idx + 1
    /\ UNCHANGED <<job, present, pc, success, written, log>>
SaveRaises ==
    /\ total' = total + 1
    /\ failedAt' = idx
    /\ pc' = "crashed"
    /\ UNCHANGED <<job, present, idx, success, written, log>>

CropSaveFails ==
    /\ InLoop /\ job = "crop"
    /\ Item.class \in present
    /\ SaveRaises
    /\ UNCHANGED <<canvasVars, removeVars, sampleVars>>

\* remove_weapons returns False: the model_ref is missing.
RemoveSkip ==
    /\ InLoop /\ job = "remove"
    /\ Item.class \notin present
    /\ total' = total + 1
    /\ success' = Count(success, FALSE)
    /\ log' = Append(log, <<"SKIP", idx>>)
    /\ idx' = idx + 1
    /\ UNCHANGED <<job, present, pc, written, failedAt>>
    /\ UNCHANGED <<canvasVars, removeVars, sampleVars>>

\* remove_weapons with no regions: the opened source is saved as it is.
RemoveCopy ==
    /\ InLoop /\ job = "remove"
    /\ Item.class \in present
    /\ Item.regions = << >>
    /\ total' = total + 1
    /\ written' = Append(written,
          [name |-> RemoveName(Item),
           content |-> [src |-> Item.class, rgb |-> FALSE, painted |-> << >>]])
    /\ log' = Append(log, <<"OK", idx>>)
    /\ success' = Count(success, TRUE)
    /\ idx' = idx + 1
    /\ UNCHANGED <<job, present, pc, failedAt>>
    /\ UNCHANGED <<canvasVars, removeVars, sampleVars>>

\* remove_weapons with regions: convert, paint each in order, save once.
RemovePaint ==
    /\ InLoop /\ job = "remove"
    /\ Item.class \in present
    /\ Item.regions # << >>
    /\ total' = total + 1
    /\ written' = Append(written,
          [name |-> RemoveName(Item),
           content |-> [src |-> Item.class, rgb |-> TRUE,
                        painted |-> Painted(<< >>, Item.regions)]])
    /\ log' = Append(log, <<"OK", idx>>)
    /\ success' = Count(success, TRUE)
    /\ idx' = idx + 1
    /\ UNCHANGED <<job, present, pc, failedAt>>
    /\ UNCHANGED <<canvasVars, removeVars, sampleVars>>

\* img.save raises in either branch of remove_weapons.
RemoveSaveFails ==
    /\ InLoop /\ job = "remove"
    /\ Item.class \in present
    /\ SaveRaises
    /\ UNCHANGED <<canvasVars, removeVars, sampleVars>>

\* The loop is over: print the tally and return.
MainDone ==
    /\ pc = "run" /\ idx > Len(Table)
    /\ log' = Append(log, <<"DONE", success, total>>)
    /\ pc' = "done"
    /\ UNCHANGED <<job, present, idx, total, success, written, failedAt>>
    /\ UNCHANGED <<canvasVars, removeVars, sampleVars>>

----------------------------------------------------------------------------
(* Crop geometry on a range of boxes *)

MaxDim == 180

BoxOrigins == {<<0, 0>>, <<50, 280>>}

InitCanvasVars ==
    /\ \/ \E o \in BoxOrigins, w \in 1..MaxDim, h \in 1..MaxDim :
             box = <<o[1], o[2], o[1] + w, o[2] + h>>
       \/ \E i \in 1..Len(CROP_REGIONS) : box = CROP_REGIONS[i].box
    /\ canvas_size = 0
    /\ paste_x = 0
    /\ paste_y = 0
    /\ cpc = "input"

IdleCanvas ==
    /\ box = <<0, 0, 0, 0>>
    /\ canvas_size = 0
    /\ paste_x = 0
    /\ paste_y = 0
    /\ cpc = "idle"

\* Lines 50-62 of crop_weapon_ref on the box.
CropCanvas ==
    /\ cpc = "input"
    /\ LET g == CropGeometry(box)
       IN  /\ canvas_size' = g.canvas_size
           /\ paste_x' = g.paste_x
           /\ paste_y' = g.paste_y
    /\ cpc' = "done"
    /\ UNCHANGED box
    /\ UNCHANGED <<batchVars, removeVars, sampleVars>>

----------------------------------------------------------------------------
(* remove-weapons-from-refs.py: rasters and the imaging primitives it calls *)

\* Rasters of the model are ImgW x ImgH; a raster is [size, mode, px] with px
\* a function from <<x, y>> to the tuple of band values of the pixel.
ImgW == 6
ImgH == 3

PixelsOf(w, h) == (0 .. w - 1) \X (0 .. h - 1)

\* A function value tabulated: every point of it is evaluated once, here.
Tab(f) == f @@ << >>

RECURSIVE SumUpTo(_, _)
SumUpTo(f, n) == IF n = 0 THEN 0 ELSE f[n] + SumUpTo(f, n - 1)

\* Image.convert('RGB') of an RGB or RGBA raster: the three colour bands.
convert_RGB(im) ==
    [size |-> im.size, mode |-> "RGB",
     px |-> Tab([p \in DOMAIN im.px |-> SubSeq(im.px[p], 1, 3)])]

\* Image.new('L', (w, h), 0)
NewMask(w, h) == Tab([p \in PixelsOf(w, h) |-> <<0>>])

\* ImageDraw.rectangle([a, b, c, d], fill): both corners are inside the
\* rectangle drawn; what falls outside the image is clipped.
InRect(p, r) == r[1] <= p[1] /\ p[1] <= r[3] /\ r[2] <= p[2] /\ p[2] <= r[4]
DrawRectangle(px, r, fill) ==
    Tab([p \in DOMAIN px |-> IF InRect(p, r) THEN <<fill>> ELSE px[p]])
\* ImageDraw.rectangle raises ValueError when x1 < x0 or y1 < y0.
DrawRaises(r) == r[3] < r[1] \/ r[4] < r[2]

\* ImageFilter.GaussianBlur(radius).filter(image): a copy of the image when
\* the radius is 0, otherwise Pillow's ImagingGaussianBlur (BoxBlur.c), which
\* approximates the Gaussian by BlurPasses extended box blurs along the rows
\* followed by BlurPasses along the columns.  An extended box of radius l + a
\* weighs the 2l+1 pixels around a position with ww and the two pixels at
\* distance l+1 with fw, in 24-bit fixed point; positions beyond the border
\* read the border pixel.
BlurPasses == 3

RECURSIVE GCD(_, _)
GCD(a, b) == IF b = 0 THEN a ELSE GCD(b, a % b)

\* _gaussian_blur_radius: sigma2 = radius^2 / passes, L = sqrt(12 sigma2 + 1),
\* l = floor((L - 1) / 2): the largest l with (2l+1)^2 <= 12 sigma2 + 1.
BoxRadiusInt(radius) ==
    LET S == (12 * radius * radius) \div BlurPasses + 1
    IN  CHOOSE l \in 0 .. radius :
            (2 * l + 1) * (2 * l + 1) <= S /\ (2 * l + 3) * (2 * l + 3) > S

\* _gaussian_blur_radius: a = (2l+1)(l(l+1) - 3 sigma2) / (6 (sigma2 - (l+1)^2)),
\* as the fraction <<numerator, denominator>> with passes * sigma2 = radius^2.
BoxRadiusFrac(radius) ==
    LET l == BoxRadiusInt(radius)
    IN  << (2 * l + 1) * (BlurPasses * l * (l + 1) - 3 * radius * radius),
           6 * (radius * radius - BlurPasses * (l + 1) * (l + 1)) >>

\* (UINT32)(n / d) for a float quotient below 2^24: n / d rounded to the 24
\* significant bits of a float (ties to even), then truncated.
FloatQuotient(n, d) ==
    LET q   == n \div d
        rem == n % d
        e   == Log2(q)
    IN  IF e >= 23
        THEN IF 2 * rem > d \/ (2 * rem = d /\ q % 2 = 1) THEN q + 1 ELSE q
        ELSE IF rem > 0 /\ d - rem <= d \div Pow2(24 - e) THEN q + 1 ELSE q

\* ImagingHorizontalBoxBlur: radius = (int)floatRadius,
\* ww = (1 << 24) / (floatRadius * 2 + 1), fw = ((1 << 24) - (radius*2+1) * ww) / 2
\* with floatRadius = l + a.  The window floatRadius * 2 + 1 is taken as the
\* exact fraction; the float the library computes for an integer radius
\* below 128 gives the same ww.
BoxKernelOf(radius) ==
    LET l  == BoxRadiusInt(radius)
        an == -BoxRadiusFrac(radius)[1]
        ad == -BoxRadiusFrac(radius)[2]
        wn == (2 * l + 1) * ad + 2 * an
        g  == GCD(wn, ad)
        ww == FloatQuotient(16777216 * (ad \div g), wn \div g)
    IN  [radius |-> l, ww |-> ww, fw |-> (16777216 - (2 * l + 1) * ww) \div 2]

\* The kernels of the radii the remover blurs with.
BoxKernel == Tab([r \in 1 .. FILL_BLUR_RADIUS |-> BoxKernelOf(r)])

\* The blur changes nothing farther than this from a non-zero pixel, along
\* each axis: every pass reaches the far pixel at distance l + 1.
BlurReach(radius) ==
    IF radius = 0 THEN 0 ELSE BlurPasses * (BoxKernel[radius].radius + 1)

\* How many of the 2R+1 window positions around x land on column c once
\* clamped to 0..n-1.
BoxWeight(n, R, x, c) ==
    IF n = 1 THEN 2 * R + 1
    ELSE IF c = 0 THEN (IF x - R <= 0 THEN R - x + 1 ELSE 0)
    ELSE IF c = n - 1 THEN (IF x + R >= n - 1 THEN R - (n - 1 - x) + 1 ELSE 0)
    ELSE IF c >= x - R /\ c <= x + R THEN 1 ELSE 0

ClampX(i, n) == Min(Max(i, 0), n - 1)

\* SAVE of ImagingLineBoxBlur8: (UINT8)((acc * ww + far * fw + (1 << 23)) >> 24),
\* the 32-bit product computed in two 12-bit halves.
SaveBulk(acc, far, k) ==
    LET hi == acc * (k.ww \div 4096) + far * (k.fw \div 4096)
        lo == acc * (k.ww % 4096) + far * (k.fw % 4096) + 8388608
    IN  ((hi + lo \div 4096) \div 4096) % 256

\* ImagingHorizontalBoxBlur: one box pass along every row.
BoxBlurH(px, w, h, k) ==
    Tab([p \in PixelsOf(w, h) |->
        Tab([b \in DOMAIN px[p] |->
            SaveBulk(SumUpTo([c \in 1 .. w |->
                        BoxWeight(w, k.radius, p[1], c - 1) * px[<<c - 1, p[2]>>][b]], w),
                     px[<<ClampX(p[1] - k.radius - 1, w), p[2]>>][b]
                        + px[<<ClampX(p[1] + k.radius + 1, w), p[2]>>][b],
                     k)])])

\* The same pass on the transposed image: along every column.
BoxBlurV(px, w, h, k) ==
    Tab([p \in PixelsOf(w, h) |->
        Tab([b \in DOMAIN px[p] |->
            SaveBulk(SumUpTo([c \in 1 .. h |->
                        BoxWeight(h, k.radius, p[2], c - 1) * px[<<p[1], c - 1>>][b]], h),
                     px[<<p[1], ClampX(p[2] - k.radius - 1, h)>>][b]
                        + px[<<p[1], ClampX(p[2] + k.radius + 1, h)>>][b],
                     k)])])

RECURSIVE BlurHN(_, _, _, _, _)
BlurHN(px, w, h, k, n) ==
    IF n = 0 THEN px ELSE BlurHN(BoxBlurH(px, w, h, k), w, h, k, n - 1)

RECURSIVE BlurVN(_, _, _, _, _)
BlurVN(px, w, h, k, n) ==
    IF n = 0 THEN px ELSE BlurVN(BoxBlurV(px, w, h, k), w, h, k, n - 1)

\* ImagingBoxBlur: the passes along the rows, then the passes along the columns.
BoxBlur(px, w, h, k) ==
    BlurVN(BlurHN(px, w, h, k, BlurPasses), w, h, k, BlurPasses)

GaussianBlur(px, w, h, radius) ==
    IF radius = 0 THEN px ELSE BoxBlur(px, w, h, BoxKernel[radius])

\* Image.composite(image1, image2, mask): per band
\* image1 * mask / 255 + image2 * (255 - mask) / 255, in Pillow's rounding.
MulDiv255(t) == ((t + 128) \div 256 + (t + 128)) \div 256
CompositeSwapped(image1, image2, m) ==
    Tab([p \in DOMAIN image1 |->
        Tab([b \in DOMAIN image1[p] |->
            MulDiv255(image2[p][b] * m[p][1] + image1[p][b] * (255 - m[p][1]))])])
Composite(image1, image2, m) ==
    Tab([p \in DOMAIN image1 |->
        Tab([b \in DOMAIN image1[p] |->
            MulDiv255(image1[p][b] * m[p][1] + image2[p][b] * (255 - m[p][1]))])])

----------------------------------------------------------------------------
(* paint_over_region *)

\* "Clamp to image bounds": x1, y1 from below only, x2, y2 from above only.
Clamp(region, w, h) ==
    << Max(0, region[1]), Max(0, region[2]), Min(w, region[3]), Min(h, region[4]) >>

\* The inset rectangle.
Inner(r, f) == << r[1] + f, r[2] + f, r[3] - f, r[4] - f >>
InsetNonEmpty(r, f) == Inner(r, f)[3] > Inner(r, f)[1] /\ Inner(r, f)[4] > Inner(r, f)[2]

\* The mask as drawn, before the blur: the inner rectangle at 255 when the
\* inset is not empty, then the whole rectangle at 200.
DrawMask(r, f, w, h) ==
    LET m0 == NewMask(w, h)
        m1 == IF InsetNonEmpty(r, f) THEN DrawRectangle(m0, Inner(r, f), 255) ELSE m0
    IN  DrawRectangle(m1, r, 200)

\* paint_over_region(img, region, feather) as a function of the pixels; "raise"
\* when ImageDraw refuses the clamped rectangle.
paint_over_region(px, region, f, w, h) ==
    LET r == Clamp(region, w, h)
    IN  IF DrawRaises(r) THEN "raise"
        ELSE Composite(GaussianBlur(px, w, h, FILL_BLUR_RADIUS), px,
                       GaussianBlur(DrawMask(r, f, w, h), w, h, f))

----------------------------------------------------------------------------
(* remove_weapons on one character, step by step *)

\* Inputs: two colour patterns, each stored as RGB and as RGBA.
Gradient == Tab([p \in PixelsOf(ImgW, ImgH) |->
                << (40 * p[1] + 10) % 256, (70 * p[2] + 20) % 256,
                   (30 * (p[1] + p[2]) + 5) % 256 >>])
Checker  == Tab([p \in PixelsOf(ImgW, ImgH) |->
                IF (p[1] + p[2]) % 2 = 0 THEN <<255, 250, 245>> ELSE <<0, 5, 10>>])

Raster(mode, colour) ==
    [size |-> <<ImgW, ImgH>>, mode |-> mode,
     px |-> IF mode = "RGBA"
            THEN Tab([p \in DOMAIN colour |-> Append(colour[p], 128)])
            ELSE colour]

SourceRasters == { Raster(m, c) : m \in {"RGB", "RGBA"}, c \in {Gradient, Checker} }

\* Every rectangle with left < right and top < bottom whose corners lie at
\* most two pixels outside the image on each side.
AllRects ==
    { <<a, b, c, d>> : a \in -2 .. ImgW + 1, b \in -2 .. ImgH + 1,
                       c \in -1 .. ImgW + 2, d \in -1 .. ImgH + 2 }

WideRects == { r \in AllRects : r[1] < r[3] /\ r[2] < r[4] }

\* The rectangles the lists are built from: overlapping ones, one reaching
\* past the border and one that lies outside the image.
ListRects ==
    { <<0, 0, 3, 3>>, <<2, 1, 5, 3>>, <<0, 0, 1, 1>>, <<-1, 1, 1, ImgH + 1>>,
      <<ImgW + 1, 0, ImgW + 2, 2>> }

MaxRegions == 2

RegionLists == UNION { [1 .. n -> ListRects] : n \in 0 .. MaxRegions }

\* The feather values tried: small ones, whose blur the rasters can hold,
\* and the one remove_weapons passes.
SmallFeather == 1
Feathers == (0 .. SmallFeather) \cup {REMOVE_FEATHER}

RemoveStart ==
    /\ feather \in Feathers
    /\ rpc = "start"
    /\ ri = 0
    /\ img = << >>
    /\ prev = << >>
    /\ rect = <<0, 0, 0, 0>>
    /\ mask = << >>
    /\ rout = << >>

\* Either one rectangle, any of WideRects, on one source, or a list of
\* rectangles on any source.
InitRemoveVars ==
    /\ \/ /\ rsrc = Raster("RGB", Gradient)
          /\ \E r \in WideRects : regions = <<r>>
       \/ /\ rsrc \in SourceRasters
          /\ regions \in RegionLists
    /\ RemoveStart

\* Lists of rectangles on every source.
InitFoldVars ==
    /\ rsrc \in SourceRasters
    /\ regions \in RegionLists
    /\ RemoveStart

IdleRemove ==
    /\ rsrc = << >>
    /\ regions = << >>
    /\ feather = 0
    /\ rpc = "idle"
    /\ ri = 0
    /\ img = << >>
    /\ prev = << >>
    /\ rect = <<0, 0, 0, 0>>
    /\ mask = << >>
    /\ rout = << >>

W == rsrc.size[1]
H == rsrc.size[2]

\* "if not regions": the opened image is saved unchanged.
RmCopyConverted ==
    /\ rpc = "start"
    /\ regions = << >>
    /\ rout' = Append(rout, convert_RGB(rsrc))
    /\ rpc' = "done"
    /\ UNCHANGED <<rsrc, regions, feather, ri, img, prev, rect, mask>>
    /\ UNCHANGED <<batchVars, canvasVars, sampleVars>>
RmCopy ==
    /\ rpc = "start"
    /\ regions = << >>
    /\ rout' = Append(rout, rsrc)
    /\ rpc' = "done"
    /\ UNCHANGED <<rsrc, regions, feather, ri, img, prev, rect, mask>>
    /\ UNCHANGED <<batchVars, canvasVars, sampleVars>>

\* img = Image.open(src_path).convert('RGB'); the loop starts.
RmOpen ==
    /\ rpc = "start"
    /\ regions # << >>
    /\ img' = convert_RGB(rsrc)
    /\ ri' = 1
    /\ rpc' = "clamp"
    /\ UNCHANGED <<rsrc, regions, feather, prev, rect, mask, rout>>
    /\ UNCHANGED <<batchVars, canvasVars, sampleVars>>

\* paint_over_region is entered with the working image; the region is clamped.
PaintClamp ==
    /\ rpc = "clamp"
    /\ prev' = img.px
    /\ rect' = Clamp(regions[ri], W, H)
    /\ rpc' = "draw"
    /\ UNCHANGED <<rsrc, regions, feather, ri, img, mask, rout>>
    /\ UNCHANGED <<batchVars, canvasVars, sampleVars>>

\* The two draw.rectangle calls on the new mask.
PaintDraw ==
    /\ rpc = "draw"
    /\ ~DrawRaises(rect)
    /\ mask' = DrawMask(rect, feather, W, H)
    /\ rpc' = "blur"
    /\ UNCHANGED <<rsrc, regions, feather, ri, img, prev, rect, rout>>
    /\ UNCHANGED <<batchVars, canvasVars, sampleVars>>

\* draw.rectangle refuses the rectangle: the exception leaves remove_weapons.
PaintDrawRaises ==
    /\ rpc = "draw"
    /\ DrawRaises(rect)
    /\ rpc' = "crashed"
    /\ UNCHANGED <<rsrc, regions, feather, ri, img, prev, rect, mask, rout>>
    /\ UNCHANGED <<batchVars, canvasVars, sampleVars>>

\* mask = mask.filter(GaussianBlur(radius=feather))
PaintBlurMask ==
    /\ rpc = "blur"
    /\ mask' = GaussianBlur(mask, W, H, feather)
    /\ rpc' = "composite"
    /\ UNCHANGED <<rsrc, regions, feather, ri, img, prev, rect, rout>>
    /\ UNCHANGED <<batchVars, canvasVars, sampleVars>>

\* img = Image.composite(blurred, img, mask); back in the loop of
\* remove_weapons, which goes on to the next region or to the save.
PaintCompositeFromSource ==
    /\ rpc = "composite"
    /\ img' = [img EXCEPT !.px =
                  Composite(GaussianBlur(convert_RGB(rsrc).px, W, H, FILL_BLUR_RADIUS),
                            convert_RGB(rsrc).px, mask)]
    /\ ri' = ri + 1
    /\ rpc' = IF ri < Len(regions) THEN "clamp" ELSE "save"
    /\ UNCHANGED <<rsrc, regions, feather, prev, rect, mask, rout>>
    /\ UNCHANGED <<batchVars, canvasVars, sampleVars>>
PaintComposite ==
    /\ rpc = "composite"
    /\ img' = [img EXCEPT !.px =
                  Composite(GaussianBlur(prev, W, H, FILL_BLUR_RADIUS), prev, mask)]
    /\ ri' = ri + 1
    /\ rpc' = IF ri < Len(regions) THEN "clamp" ELSE "save"
    /\ UNCHANGED <<rsrc, regions, feather, prev, rect, mask, rout>>
    /\ UNCHANGED <<batchVars, canvasVars, sampleVars>>

\* img.save(out_path, 'PNG')
RmSave ==
    /\ rpc = "save"
    /\ rout' = Append(rout, img)
    /\ rpc' = "done"
    /\ UNCHANGED <<rsrc, regions, feather, ri, img, prev, rect, mask>>
    /\ UNCHANGED <<batchVars, canvasVars, sampleVars>>

----------------------------------------------------------------------------
(* sample_background_color *)

SAMPLE_MARGIN == 30
SAMPLE_STEP == 5
DEFAULT_COLOR == <<40, 40, 45>>

\* range(start, stop, step) for step > 0, as a sequence.
RangeLen(start, stop, step) ==
    IF stop <= start THEN 0 ELSE (stop - start + step - 1) \div step
Range(start, stop, step) ==
    [k \in 1 .. RangeLen(start, stop, step) |-> start + (k - 1) * step]

\* max(0, min(n - 1, v))
ClampIndex(n, v) == Max(0, Min(n - 1, v))

\* img.getpixel((sx, sy))
getpixel(im, sx, sy) == im.px[<<sx, sy>>]

\* The list `pixels` after the two loops, in append order.
CollectSamples(im, region, margin) ==
    LET x1 == region[1]
        y1 == region[2]
        x2 == region[3]
        y2 == region[4]
        w  == im.size[1]
        h  == im.size[2]
        dxs == Range(-margin, (x2 - x1) + margin, SAMPLE_STEP)
        dys == Range(-margin, (y2 - y1) + margin, SAMPLE_STEP)
        top == [k \in 1 .. 2 * Len(dxs) |->
                  LET dx     == dxs[(k + 1) \div 2]
                      side_y == IF k % 2 = 1 THEN y1 - margin ELSE y2 + margin
                  IN  getpixel(im, ClampIndex(w, x1 + dx), ClampIndex(h, side_y))]
        lft == [k \in 1 .. 2 * Len(dys) |->
                  LET dy     == dys[(k + 1) \div 2]
                      side_x == IF k % 2 = 1 THEN x1 - margin ELSE x2 + margin
                  IN  getpixel(im, ClampIndex(w, side_x), ClampIndex(h, y1 + dy))]
    IN  top \o lft

\* sum(p[ch] for p in pixels) // len(pixels)
ChannelSum(ps, ch) == SumUpTo([k \in 1 .. Len(ps) |-> ps[k][ch]], Len(ps))
AverageRoundUp(ps, ch) == (ChannelSum(ps, ch) + Len(ps) - 1) \div Len(ps)
Average(ps, ch) == ChannelSum(ps, ch) \div Len(ps)

\* The value returned for the collected list.
ColorOf(ps) ==
    IF ps = << >> THEN DEFAULT_COLOR
    ELSE << Average(ps, 1), Average(ps, 2), Average(ps, 3) >>

\* Regions tried: corners inside the raster, spans from far negative (the
\* ranges are empty from -2 * margin down) to a few steps wide.
Spans == {-61, -60, -59, -30, -1, 0, 1, 4, 5, 6}

InitSampleVars ==
    /\ simg \in { Raster("RGB", Gradient), Raster("RGB", Checker) }
    /\ \E x \in {0, 2, ImgW - 1}, y \in {0, ImgH - 1}, dx \in Spans, dy \in Spans :
          sregion = <<x, y, x + dx, y + dy>>
    /\ pixels = << >>
    /\ sresult = << >>
    /\ spc = "input"

IdleSample ==
    /\ simg = << >>
    /\ sregion = <<0, 0, 0, 0>>
    /\ pixels = << >>
    /\ sresult = << >>
    /\ spc = "idle"

\* sample_background_color(img, region) with the default margin.
Sample ==
    /\ spc = "input"
    /\ pixels' = CollectSamples(simg, sregion, SAMPLE_MARGIN)
    /\ sresult' = ColorOf(pixels')
    /\ spc' = "done"
    /\ UNCHANGED <<simg, sregion>>
    /\ UNCHANGED <<batchVars, canvasVars, removeVars>>

----------------------------------------------------------------------------
(* The specifications *)

Init == InitBatchVars /\ IdleCanvas /\ IdleRemove /\ IdleSample
Next ==
    \/ CropSkip
    \/ CropOK
    \/ CropSaveFails
    \/ RemoveSkip
    \/ RemoveCopy
    \/ RemovePaint
    \/ RemoveSaveFails
    \/ MainDone
Spec == Init /\ [][Next]_vars

InitCanvas == IdleBatch /\ InitCanvasVars /\ IdleRemove /\ IdleSample
NextCanvas == CropCanvas
SpecCanvas == InitCanvas /\ [][NextCanvas]_vars

InitRemove == IdleBatch /\ IdleCanvas /\ InitRemoveVars /\ IdleSample
NextRemove ==
    \/ RmCopy
    \/ RmOpen
    \/ PaintClamp
    \/ PaintDraw
    \/ PaintDrawRaises
    \/ PaintBlurMask
    \/ PaintComposite
    \/ RmSave
SpecRemove == InitRemove /\ [][NextRemove]_vars

InitFold == IdleBatch /\ IdleCanvas /\ InitFoldVars /\ IdleSample
SpecFold == InitFold /\ [][NextRemove]_vars

InitSample == IdleBatch /\ IdleCanvas /\ IdleRemove /\ InitSampleVars
NextSample == Sample
SpecSample == InitSample /\ [][NextSample]_vars

----------------------------------------------------------------------------
(* Properties of the batch runs (Spec) *)

SourceExists(i) == Table[i].class \in present

OutputName(i) == IF job = "crop" THEN CropName(Table[i]) ELSE RemoveName(Table[i])

\* The output names of the items i..n whose source exists, in table order.
RECURSIVE NamesFrom(_, _)
NamesFrom(i, n) ==
    IF i > n THEN << >>
    ELSE (IF SourceExists(i) THEN <<OutputName(i)>> ELSE << >>) \o NamesFrom(i + 1, n)

WrittenNames == [k \in 1 .. Len(written) |-> written[k].name]

NumExisting(n) == Cardinality({ i \in 1 .. n : SourceExists(i) })

\* C1: a missing source is not fatal.  While the loop runs, total counts the
\* items attempted and success those whose source exists; when main returns,
\* every item of the table has one line in the log, in table order (OK when
\* its source exists, SKIP when it does not), the files written are exactly
\* the outputs of the items whose source exists, in table order, total is the
\* number of configured items and success the number whose source exists.
C1_MissingSourceNonFatal ==
    /\ pc = "run" /\ failedAt = 0 =>
          /\ total = idx - 1
          /\ success = NumExisting(idx - 1)
          /\ WrittenNames = NamesFrom(1, idx - 1)
    /\ pc = "done" =>
          /\ idx = Len(Table) + 1
          /\ total = Len(Table)
          /\ success = NumExisting(Len(Table))
          /\ total - success = Cardinality({ i \in 1 .. Len(Table) : ~SourceExists(i) })
          /\ Len(log) = Len(Table) + 1
          /\ \A i \in 1 .. Len(Table) :
                log[i] = << (IF SourceExists(i) THEN "OK" ELSE "SKIP"), i >>
          /\ log[Len(Table) + 1] = <<"DONE", success, total>>
          /\ WrittenNames = NamesFrom(1, Len(Table))

\* A finished remover run with one success and at least one skip.
C1_Witness ==
    /\ pc = "done" /\ job = "remove"
    /\ success = 1
    /\ total - success >= 1
    /\ Len(written) = 1

\* C10: a failing save is fatal and is not retried.  Once the save of item k
\* has raised, the run has stopped at k (no step is possible any more), the
\* tally line was never printed, the log holds the lines of the items before
\* k only, and the files written are the outputs of the items before k whose
\* source exists, as they were written.
C10_WriteFailureFatal ==
    failedAt # 0 =>
       /\ pc = "crashed"
       /\ idx = failedAt
       /\ ~ENABLED Next
       /\ Len(log) = failedAt - 1
       /\ \A k \in 1 .. Len(log) : log[k][1] # "DONE" /\ log[k][2] = k
       /\ WrittenNames = NamesFrom(1, failedAt - 1)

\* The save of the third item raised after an earlier item had been written.
C10_Witness ==
    /\ failedAt = 3
    /\ pc = "crashed"
    /\ Len(written) >= 1
    /\ idx <= Len(Table)

----------------------------------------------------------------------------
(* Properties of the crop geometry (SpecCanvas) *)

CropW == CropSize(box)[1]
CropH == CropSize(box)[2]
CropDim == Max(CropW, CropH)

\* C2 as stated: the canvas side is ceil(max(w, h) * 1.15), the smallest
\* integer not less than 115 * max(w, h) / 100.
C2_CanvasIsCeiling ==
    cpc = "done" =>
       /\ 100 * canvas_size >= 115 * CropDim
       /\ 100 * (canvas_size - 1) < 115 * CropDim

\* C2 amended: the canvas side is the double product max(w, h) * 1.15
\* truncated: floor(115 * max(w, h) / 100), and one less than that exactly
\* when max(w, h) is a multiple of 20 (the exact value is the integer
\* 23 * max / 20) whose rounded double product falls below that integer,
\* which is when 4 * max > 5 * 2^floor(log2(23 * max / 20)).
C2_CanvasIsTruncation ==
    cpc = "done" =>
       LET f   == (115 * CropDim) \div 100
           low == /\ CropDim % 20 = 0
                  /\ 4 * CropDim > 5 * Pow2(Log2((23 * CropDim) \div 20))
       IN  /\ canvas_size = IF low THEN f - 1 ELSE f
           /\ canvas_size >= CropDim

\* A 100-pixel crop gets a 114-pixel canvas.
C2_Witness ==
    /\ cpc = "done"
    /\ CropDim = 100
    /\ canvas_size = 114

\* C3: the crop is centred and inside the canvas: the left padding is at
\* least 0, at most the right padding, and the right padding is at most one
\* more; the same for top and bottom.
C3_Centred ==
    cpc = "done" =>
       LET left   == paste_x
           right  == canvas_size - CropW - paste_x
           top    == paste_y
           bottom == canvas_size - CropH - paste_y
       IN  /\ 0 <= left /\ left <= right /\ right <= left + 1
           /\ 0 <= top /\ top <= bottom /\ bottom <= top + 1

\* An odd horizontal difference: the extra pixel is on the right.
C3_Witness ==
    /\ cpc = "done"
    /\ (canvas_size - CropW) % 2 = 1
    /\ canvas_size - CropW - paste_x = paste_x + 1
    /\ (canvas_size - CropH) % 2 = 0
    /\ paste_y > 0

----------------------------------------------------------------------------
(* Properties of remove_weapons and paint_over_region (SpecRemove) *)

\* The source as remove_weapons holds it when regions are painted.
OpenedRGB == convert_RGB(rsrc)

\* Distance along the axes from pixel p to the rectangle r (corners
\* included): the larger of the horizontal and the vertical gap.
AxisGap(v, lo, hi) == IF v < lo THEN lo - v ELSE IF v > hi THEN v - hi ELSE 0
Distance(p, r) == Max(AxisGap(p[1], r[1], r[3]), AxisGap(p[2], r[2], r[4]))

\* The left fold of paint_over_region over a rectangle list.
RECURSIVE FoldPaint(_, _)
FoldPaint(px, rs) ==
    IF rs = << >> THEN px
    ELSE FoldPaint(paint_over_region(px, Head(rs), feather, W, H), Tail(rs))

Reverse(rs) == [k \in 1 .. Len(rs) |-> rs[Len(rs) + 1 - k]]

\* C4: with an empty rectangle list remove_weapons does not fail and never
\* enters paint_over_region; it saves one file, equal to the source at every
\* pixel, and returns.
C4_EmptyListCopies ==
    regions = << >> /\ rpc # "idle" =>
       /\ rpc \in {"start", "done"}
       /\ ri = 0 /\ img = << >> /\ mask = << >>
       /\ rpc = "done" => rout = <<rsrc>>

\* An RGBA source copied.
C4_Witness ==
    /\ rpc = "done"
    /\ regions = << >>
    /\ rsrc.mode = "RGBA"
    /\ Len(rout) = 1
    /\ rout[1].px = rsrc.px

\* C5 as stated: when the inset is not empty, the drawn mask (before the
\* blur) is 255 on every pixel of the inset rectangle and 200 only on the
\* pixels of the target rectangle outside the inset.
C5_InsetOpaque ==
    rpc = "blur" /\ InsetNonEmpty(rect, feather) =>
       \A p \in DOMAIN mask :
          /\ InRect(p, Inner(rect, feather)) => mask[p] = <<255>>
          /\ mask[p] = <<200>> => InRect(p, rect) /\ ~InRect(p, Inner(rect, feather))

\* C6: the drawn mask is 0 outside the clamped rectangle; after the blur of
\* reach R = BlurReach(feather) it is 0 at every pixel farther than R from
\* the rectangle, and the image paint_over_region returns equals its input
\* there; in a whole run, a pixel farther than R from every rectangle of the
\* list has in the saved image the value it has in the source.
C6_FarPixelsUnchanged ==
    LET R == BlurReach(feather)
    IN  /\ rpc = "blur" =>
              \A p \in DOMAIN mask : ~InRect(p, rect) => mask[p] = <<0>>
        /\ rpc = "composite" =>
              \A p \in DOMAIN mask : Distance(p, rect) > R => mask[p] = <<0>>
        /\ rpc \in {"clamp", "save"} /\ ri > 1 =>
              \A p \in DOMAIN prev : Distance(p, rect) > R => img.px[p] = prev[p]
        /\ rpc = "done" /\ regions # << >> =>
              \A p \in DOMAIN OpenedRGB.px :
                 (\A k \in 1 .. Len(regions) : Distance(p, regions[k]) > R)
                    => rout[1].px[p] = OpenedRGB.px[p]

\* A run over two rectangles that changed some pixel and left one alone that
\* is farther than R from both.
C6_Witness ==
    /\ rpc = "done"
    /\ Len(regions) = 2
    /\ feather = 1
    /\ \E p \in DOMAIN OpenedRGB.px :
          /\ \A k \in 1 .. Len(regions) : Distance(p, regions[k]) > BlurReach(feather)
          /\ rout[1].px[p] = OpenedRGB.px[p]
    /\ \E q \in DOMAIN OpenedRGB.px : rout[1].px[q] # OpenedRGB.px[q]

\* C7: for a non-empty list the image saved is the left fold of
\* paint_over_region over the list in table order, each application made to
\* the result of the one before; nothing is saved before the last rectangle
\* is painted and one file is saved after it.
C7_LeftFold ==
    /\ rpc \notin {"done", "idle"} => rout = << >>
    /\ rpc = "save" => ri = Len(regions) + 1
    /\ rpc = "done" /\ regions # << >> =>
          rout = << [OpenedRGB EXCEPT !.px = FoldPaint(OpenedRGB.px, regions)] >>

\* Two overlapping rectangles whose order shows in the result.
C7_Witness ==
    /\ rpc = "done"
    /\ Len(regions) = 2
    /\ regions[1] # regions[2]
    /\ Len(rout) = 1
    /\ rout[1].px # FoldPaint(OpenedRGB.px, Reverse(regions))
    /\ rout[1].px # paint_over_region(OpenedRGB.px, regions[2], feather, W, H)

\* C8 as stated: for every rectangle with left < right and top < bottom the
\* clamp yields 0 <= x1 <= x2 <= w and 0 <= y1 <= y2 <= h, and a rectangle
\* already inside the bounds is unchanged.
C8_ClampInsideBounds ==
    rpc = "draw" =>
       LET region == regions[ri]
       IN  /\ 0 <= rect[1] /\ rect[1] <= rect[3] /\ rect[3] <= W
           /\ 0 <= rect[2] /\ rect[2] <= rect[4] /\ rect[4] <= H
           /\ (/\ 0 <= region[1] /\ region[3] <= W
               /\ 0 <= region[2] /\ region[4] <= H) => rect = region

----------------------------------------------------------------------------
(* Properties of sample_background_color (SpecSample) *)

SpanX == sregion[3] - sregion[1]
SpanY == sregion[4] - sregion[2]
ZeroSize == SpanX = 0 /\ SpanY = 0

\* How many offsets -30, -25, -20, ... lie below span + 30.
Offsets(span) ==
    Cardinality({ v \in -SAMPLE_MARGIN .. span + SAMPLE_MARGIN - 1 :
                     (v + SAMPLE_MARGIN) % SAMPLE_STEP = 0 })

RECURSIVE Total(_, _)
Total(ps, ch) == IF ps = << >> THEN 0 ELSE Head(ps)[ch] + Total(Tail(ps), ch)

\* C9 as stated: a zero-size rectangle collects no samples and the default
\* colour is returned.
C9_ZeroSizeGivesDefault ==
    spc = "done" /\ ZeroSize => pixels = << >> /\ sresult = DEFAULT_COLOR

\* C9 amended: each strip contributes two samples per offset, so a
\* zero-size rectangle collects 48 samples (every one a pixel of the image,
\* at a clamped position) and gets their average; no sample is collected,
\* and the default colour returned, only when both spans are -60 or less;
\* whenever samples are collected each channel returned is the floor of
\* the channel's mean over them.
C9_SampleAverage ==
    spc = "done" =>
       /\ Len(pixels) = 2 * Offsets(SpanX) + 2 * Offsets(SpanY)
       /\ ZeroSize => Len(pixels) = 48
       /\ pixels = << >> <=> (SpanX <= -2 * SAMPLE_MARGIN /\ SpanY <= -2 * SAMPLE_MARGIN)
       /\ pixels = << >> => sresult = DEFAULT_COLOR
       /\ \A k \in 1 .. Len(pixels) : \E p \in DOMAIN simg.px : pixels[k] = simg.px[p]
       /\ pixels # << >> =>
             \A ch \in 1 .. 3 :
                /\ sresult[ch] * Len(pixels) <= Total(pixels, ch)
                /\ Total(pixels, ch) < (sresult[ch] + 1) * Len(pixels)

\* A zero-size rectangle whose 48 samples average to something else than
\* the default colour, with a mean that is not a whole number.
C9_Witness ==
    /\ spc = "done"
    /\ ZeroSize
    /\ Len(pixels) = 48
    /\ sresult # DEFAULT_COLOR
    /\ Total(pixels, 1) % 48 # 0

====
